---- MODULE Spec2Model ----
(***************************************************************************)
(* The EV analytics dashboard of src/home.py as a state machine.           *)
(*                                                                         *)
(* One process serves the script.  Every user interaction reruns the whole *)
(* script body: df = load_data() (memoized by st.cache_data), the sidebar, *)
(* then the if/elif chain over the selected page.  The state is the CSV    *)
(* file on disk, the memoization cache of load_data, the widget values,    *)
(* the script's global df after the last run and the view that run drew.   *)
(***************************************************************************)
EXTENDS Integers, Sequences, FiniteSets, TLC

VARIABLES
    disk,       \* content of EV_Cleaned.csv on disk: a table, or NoFile
    cache,      \* st.cache_data entry of load_data(): a table, or NoEntry
    reads,      \* completed pd.read_csv calls of this process
    firstLoad,  \* the table the first completed read of this process returned
    df,         \* the script's global df after the last run (NoTable before)
    page,       \* value of the sidebar radio in the last run
    chart,      \* value of the EDA selectbox in the last run ("" if not drawn)
    view,       \* what the last run rendered
    outcome,    \* how load_data() ended in the last run: read, hit or raised
    seen,       \* one earlier run, remembered: its df, page, chart and view
    lib,        \* the installed library build (tie order, generator stream)
    np_global   \* seed state of NumPy's process-global generator

vars ==
    << disk, cache, reads, firstLoad, df, page, chart, view, outcome, seen, lib,
       np_global >>

(***************************************************************************)
(* Bounds of the model.                                                    *)
(***************************************************************************)
MaxCats == 17       \* distinct categories of the widest generated column
MaxRows == 4        \* rows of a generated clustering table
MaxReads == 3       \* the read counter saturates here
Resolution == 4     \* a uniform draw is one of 0/Resolution .. (Resolution-1)/Resolution

(***************************************************************************)
(* Program constants.                                                      *)
(***************************************************************************)
TopN == 15          \* .head(15) of the three "Top 15" charts
HeadRows == 5       \* df.head() of the Dataset page
n_clusters == 3     \* KMeans(n_clusters=3, ...)
random_state == 42  \* KMeans(..., random_state=42)
n_local_trials == 3 \* k-means++ default: 2 + int(log(n_clusters))
max_iter == 300     \* KMeans default

Pages ==
    << "Overview", "Dataset", "Exploratory Data Analysis",
       "EV Clustering (ML)", "Key Insights & Conclusion" >>

Charts ==
    << "Top EV Manufacturers", "EV Adoption by Model Year",
       "Electric Range Distribution", "Top Cities by EV Count",
       "Top States by EV Count", "Base MSRP Distribution",
       "EV Type Distribution" >>

Columns ==
    { "Make", "Model_Year", "Electric_Range", "City", "State",
      "Base_MSRP", "Electric_Vehicle_Type" }

NoFile == [columns |-> {"<no file>"}, rows |-> << >>]
NoEntry == [columns |-> {"<no entry>"}, rows |-> << >>]
NoTable == [columns |-> {"<no table>"}, rows |-> << >>]

Range(s) == { s[i] : i \in DOMAIN s }

Min(a, b) == IF a <= b THEN a ELSE b

\* F(e) with e evaluated once, whatever the number of times F uses it
With(e, F(_)) == CHOOSE v \in { F(a) : a \in { e } } : TRUE

\* the elements of s at the indices in keep, in order
Pick(s, keep) ==
    [ k \in 1..Cardinality(keep) |->
        s[CHOOSE i \in keep : Cardinality({ j \in keep : j <= i }) = k] ]

RECURSIVE Sum(_)
Sum(s) == IF Len(s) = 0 THEN 0 ELSE Head(s) + Sum(Tail(s))

(***************************************************************************)
(* pandas, as far as the script uses it.  A table is a set of column names *)
(* and a sequence of rows, each row a record over the columns.             *)
(***************************************************************************)
Row(mk, yr, er, city, st, msrp, ty) ==
    [ Make |-> mk, Model_Year |-> yr, Electric_Range |-> er, City |-> city,
      State |-> st, Base_MSRP |-> msrp, Electric_Vehicle_Type |-> ty ]

Table(rows) == [columns |-> Columns, rows |-> rows]

\* the same file without column c
DropColumn(t, c) ==
    [ columns |-> t.columns \ {c},
      rows |-> [ i \in DOMAIN t.rows |->
                   [ k \in t.columns \ {c} |-> t.rows[i][k] ] ] ]

\* df[c]: the values of column c, in row order
Column(t, c) == [ i \in DOMAIN t.rows |-> t.rows[i][c] ]

\* df.shape
shape(t) == << Len(t.rows), Cardinality(t.columns) >>

\* df.head(n)
head(s, n) == SubSeq(s, 1, Min(n, Len(s)))

\* the filter with >= in place of >
NonNegativeMsrp(rows) ==
    With({ i \in DOMAIN rows : rows[i].Base_MSRP >= 0 },
         LAMBDA keep : Pick(rows, keep))

\* df[df["Base_MSRP"] > 0]: the rows with a positive price, in order
PositiveMsrp(rows) ==
    With({ i \in DOMAIN rows : rows[i].Base_MSRP > 0 },
         LAMBDA keep : Pick(rows, keep))

\* the distinct values of s in order of first appearance
Uniques(s) ==
    With({ i \in DOMAIN s : \A j \in 1..(i - 1) : s[j] # s[i] },
         LAMBDA first : Pick(s, first))

Count(s, v) == Cardinality({ i \in DOMAIN s : s[i] = v })

\* Series.nunique()
nunique(s) == Cardinality(Range(s))

\* pair j sorts before pair i: the higher count first, a tie kept in the order
\* of first appearance or reversed, as the build's sort leaves it
CountBefore(pairs, tie, j, i) ==
    \/ pairs[j][2] > pairs[i][2]
    \/ /\ pairs[j][2] = pairs[i][2]
       /\ IF tie = "first" THEN j < i ELSE j > i

\* value_counts(sort=False): the pairs in order of first appearance
Unsorted(pairs, tie) == pairs

SortByCountDesc(pairs, tie) ==
    [ k \in DOMAIN pairs |->
        pairs[CHOOSE i \in DOMAIN pairs :
                Cardinality({ j \in DOMAIN pairs : CountBefore(pairs, tie, j, i) })
                    = k - 1] ]

\* <<value, number of rows>> for every distinct value of column s
Counts(s) ==
    With(Uniques(s), LAMBDA u : [ i \in DOMAIN u |-> << u[i], Count(s, u[i]) >> ])

\* Series.value_counts(): <<value, count>> pairs, most frequent first
value_counts(col, tie) ==
    With(col, LAMBDA s :
        With(Counts(s), LAMBDA pairs : SortByCountDesc(pairs, tie)))

SortByKeyAsc(pairs) ==
    [ k \in DOMAIN pairs |->
        pairs[CHOOSE i \in DOMAIN pairs :
                Cardinality({ j \in DOMAIN pairs : pairs[j][1] < pairs[i][1] })
                    = k - 1] ]

\* df.groupby(col).size(): <<key, count>> pairs in ascending key order
groupby_size(col) ==
    With(col, LAMBDA s : With(Counts(s), LAMBDA pairs : SortByKeyAsc(pairs)))

(***************************************************************************)
(* sklearn.preprocessing.StandardScaler, in exact arithmetic.              *)
(*                                                                         *)
(* z = (x - mean) / std with the population std, and std = 1 for a         *)
(* constant column.  A column x of n values is first brought to the        *)
(* integers r = (x - min x) / unit, which standardization cannot tell from *)
(* x; then z[i] = a[i] / sqrt(V) with a[i] = n*r[i] - Sum(r) and           *)
(* V = n*Sum(r^2) - Sum(r)^2.  The scaled column is kept as the integers a *)
(* and the weight w = V (1 when V = 0, where every a[i] is 0).             *)
(***************************************************************************)
RECURSIVE Gcd(_, _)
Gcd(a, b) == IF b = 0 THEN a ELSE Gcd(b, a % b)

RECURSIVE GcdAll(_)
GcdAll(s) == IF Len(s) = 0 THEN 0 ELSE Gcd(Head(s), GcdAll(Tail(s)))

MinOf(s) == CHOOSE x \in Range(s) : \A y \in Range(s) : x <= y

Reduced(x) ==
    With(MinOf(x), LAMBDA m :
        With(GcdAll([ i \in DOMAIN x |-> x[i] - m ]), LAMBDA g :
            [ i \in DOMAIN x |-> (x[i] - m) \div (IF g = 0 THEN 1 ELSE g) ]))

ScaleColumn(x) ==
    With(Reduced(x), LAMBDA r :
        With(Sum(r), LAMBDA sr :
            With(Len(r) * Sum([ i \in DOMAIN r |-> r[i] * r[i] ]) - sr * sr, LAMBDA V :
                [ a |-> [ i \in DOMAIN r |-> Len(r) * r[i] - sr ],
                  constant |-> V = 0,
                  w |-> IF V = 0 THEN 1 ELSE V ])))

\* scaler.fit_transform(features) for features = <<Electric_Range, Base_MSRP>>
\* rows; an empty input is sklearn's "Found array with 0 sample(s)" ValueError
fit_transform(features) ==
    IF Len(features) = 0 THEN [ error |-> "ValueError" ]
    ELSE With(ScaleColumn([ i \in DOMAIN features |-> features[i][1] ]), LAMBDA er :
         With(ScaleColumn([ i \in DOMAIN features |-> features[i][2] ]), LAMBDA pr :
            [ error |-> "",
              X |-> [ i \in DOMAIN features |-> << er.a[i], pr.a[i] >> ],
              w |-> << er.w, pr.w >>,
              nvar |-> (IF er.constant THEN 0 ELSE 1) + (IF pr.constant THEN 0 ELSE 1) ]))

(***************************************************************************)
(* The pseudo-random generator behind random_state: a deterministic stream *)
(* of uniform draws fixed by the seed.  Which stream a seed gives is up to *)
(* the installed build, so it is a parameter (build.mul, build.inc).       *)
(***************************************************************************)
RECURSIVE GenState(_, _, _)
GenState(build, seed, i) ==
    IF i = 0 THEN seed % 101
    ELSE (build.mul * GenState(build, seed, i - 1) + build.inc) % 101

\* the i-th uniform draw of a generator seeded with seed, in 1/Resolution
uniform(build, seed, i) == GenState(build, seed, i) % Resolution

NDraws == 1 + (n_clusters - 1) * n_local_trials

(***************************************************************************)
(* sklearn.cluster.KMeans(n_clusters, random_state).fit_predict: k-means++ *)
(* seeding, one run of Lloyd's algorithm (init="k-means++", n_init=1,      *)
(* max_iter=300, tol=1e-4).  A centre is <<S1, S2, k>>: the mean S/k of k  *)
(* scaled points (S itself when k = 0).                                    *)
(***************************************************************************)
Den(c) == IF c[3] = 0 THEN 1 ELSE c[3]

\* squared distance of scaled point p to centre c as <<numerator, denominator>>,
\* in units of 1/(w[1]*w[2])
SqDist(p, c, w) ==
    << (Den(c) * p[1] - c[1]) * (Den(c) * p[1] - c[1]) * w[2]
         + (Den(c) * p[2] - c[2]) * (Den(c) * p[2] - c[2]) * w[1],
       Den(c) * Den(c) >>

Less(d, e) == d[1] * e[2] < e[1] * d[2]

\* squared distances of every point to point j
DistTo(X, w, j) ==
    [ i \in DOMAIN X |-> SqDist(X[i], << X[j][1], X[j][2], 1 >>, w)[1] ]

\* np.searchsorted(stable_cumsum(closest), u/Resolution * pot)
searchsorted(closest, u, pot) ==
    With({ i \in DOMAIN closest :
             Sum(SubSeq(closest, 1, i)) * Resolution >= u * pot },
         LAMBDA hit : CHOOSE i \in hit : \A j \in hit : i <= j)

\* one k-means++ step: n_local_trials candidates drawn in proportion to the
\* squared distance to the closest centre so far, the one leaving the least
\* potential kept (np.argmin: the first of the least)
NextCenter(X, w, closest, draws) ==
    With(Sum(closest), LAMBDA pot :
    With([ t \in 1..n_local_trials |-> searchsorted(closest, draws[t], pot) ],
         LAMBDA cand :
    With([ t \in 1..n_local_trials |->
             With(DistTo(X, w, cand[t]), LAMBDA d :
                 [ i \in DOMAIN X |-> Min(closest[i], d[i]) ]) ],
         LAMBDA newClosest :
    With([ t \in 1..n_local_trials |-> Sum(newClosest[t]) ], LAMBDA pots :
    With(CHOOSE t \in 1..n_local_trials :
             /\ \A s \in 1..n_local_trials : pots[t] <= pots[s]
             /\ \A s \in 1..(t - 1) : pots[t] < pots[s],
         LAMBDA best : [ id |-> cand[best], closest |-> newClosest[best] ])))))

RECURSIVE MoreCenters(_, _, _, _, _)
MoreCenters(X, w, u, ids, closest) ==
    IF Len(ids) = n_clusters THEN ids
    ELSE With(NextCenter(X, w, closest,
                         [ t \in 1..n_local_trials |->
                             u[1 + (Len(ids) - 1) * n_local_trials + t] ]),
              LAMBDA s : MoreCenters(X, w, u, Append(ids, s.id), s.closest))

\* _kmeans_plusplus: the row indices of the n_clusters initial centres
kmeans_plusplus(X, w, u) ==
    With((u[1] * Len(X)) \div Resolution + 1, LAMBDA id1 :
        With(DistTo(X, w, id1), LAMBDA closest :
            MoreCenters(X, w, u, << id1 >>, closest)))

\* an E-step that puts every point in the first cluster
AssignFirst(X, w, centers) == [ i \in DOMAIN X |-> 1 ]

\* E-step: the nearest centre of every point (np.argmin: the first of the nearest)
Assign(X, w, centers) ==
    [ i \in DOMAIN X |->
        CHOOSE j \in DOMAIN centers :
            /\ \A l \in DOMAIN centers :
                   ~Less(SqDist(X[i], centers[l], w), SqDist(X[i], centers[j], w))
            /\ \A l \in 1..(j - 1) :
                   Less(SqDist(X[i], centers[j], w), SqDist(X[i], centers[l], w)) ]

\* the point farthest from its own centre among those not yet taken
Farthest(dist, taken, tie) ==
    With({ i \in DOMAIN dist \ taken :
             \A j \in DOMAIN dist \ taken : ~Less(dist[i], dist[j]) },
         LAMBDA far :
            IF tie = "first"
            THEN CHOOSE i \in far : \A j \in far : i <= j
            ELSE CHOOSE i \in far : \A j \in far : j <= i)

\* _relocate_empty_clusters_dense: each empty cluster takes over one of the
\* points farthest from their centres, which leaves its old cluster
RECURSIVE Relocate(_, _, _, _, _, _, _)
Relocate(X, labels, dist, tie, sums, empty, taken) ==
    IF Len(empty) = 0 THEN sums
    ELSE With(Farthest(dist, taken, tie), LAMBDA fi :
            Relocate(X, labels, dist, tie,
                     [ sums EXCEPT
                         ![labels[fi]] =
                             << @[1] - X[fi][1], @[2] - X[fi][2], @[3] - 1 >>,
                         ![Head(empty)] = << X[fi][1], X[fi][2], 1 >> ],
                     Tail(empty), taken \cup { fi }))

\* the sum and the number of the points of every cluster
ClusterSums(X, labels, k) ==
    [ j \in 1..k |->
        << Sum([ i \in DOMAIN X |-> IF labels[i] = j THEN X[i][1] ELSE 0 ]),
           Sum([ i \in DOMAIN X |-> IF labels[i] = j THEN X[i][2] ELSE 0 ]),
           Cardinality({ i \in DOMAIN X : labels[i] = j }) >> ]

\* M-step: the mean of every cluster, empty clusters relocated
Update(X, w, tie, labels, centers) ==
    With(ClusterSums(X, labels, Len(centers)), LAMBDA sums :
    With([ i \in DOMAIN X |-> SqDist(X[i], centers[labels[i]], w) ], LAMBDA dist :
    With(Pick([ j \in DOMAIN sums |-> j ], { j \in DOMAIN sums : sums[j][3] = 0 }),
         LAMBDA empty : Relocate(X, labels, dist, tie, sums, empty, {}))))

\* ceil(a / b) for a >= 0, b > 0
CeilDiv(a, b) == (a + b - 1) \div b

\* the shift of centre j along feature f, squared, as <<numerator, denominator>>
ShiftTerm(old, new, w, j, f) ==
    << (new[j][f] * Den(old[j]) - old[j][f] * Den(new[j]))
         * (new[j][f] * Den(old[j]) - old[j][f] * Den(new[j])),
       Den(old[j]) * Den(old[j]) * Den(new[j]) * Den(new[j]) * w[f] >>

\* sum of squared centre shifts <= tol * mean(var(X)), with tol = 1e-4 and
\* var = 1 for each of the nvar non-constant scaled columns: 20000 * shift <= nvar
ShiftWithinTol(old, new, w, nvar) ==
    With([ k \in 1..(2 * Len(old)) |->
             ShiftTerm(old, new, w, (k + 1) \div 2, 2 - (k % 2)) ],
         LAMBDA terms :
            /\ \A k \in DOMAIN terms : terms[k][1] <= (nvar * terms[k][2]) \div 20000
            /\ Sum([ k \in DOMAIN terms |->
                       CeilDiv(terms[k][1] * 20000000, terms[k][2]) ]) <= 1000 * nvar)

\* _kmeans_single_lloyd from iteration it on; the labels it returns.  past
\* holds the <<centers, labels_old>> of the iterations before it: when the
\* loop is back where it was period iterations ago it will be there again
\* every period iterations, and the whole periods left before max_iter are
\* skipped
RECURSIVE Lloyd(_, _, _, _, _, _, _, _)
Lloyd(X, w, nvar, tie, centers, labels_old, it, past) ==
    IF \E k \in DOMAIN past : past[k] = << centers, labels_old >>
    THEN With(Len(past) + 1
                - (CHOOSE k \in DOMAIN past : past[k] = << centers, labels_old >>),
              LAMBDA period :
                Lloyd(X, w, nvar, tie, centers, labels_old,
                      max_iter - ((max_iter - it) % period), << >>))
    ELSE With(Assign(X, w, centers), LAMBDA labels :
        IF labels = labels_old THEN labels
        ELSE With(Update(X, w, tie, labels, centers), LAMBDA new :
                IF ShiftWithinTol(centers, new, w, nvar) \/ it = max_iter
                THEN Assign(X, w, new)
                ELSE Lloyd(X, w, nvar, tie, new, labels, it + 1,
                           Append(past, << centers, labels_old >>))))

\* kmeans.fit_predict(scaled_features) with the generator seeded by seed:
\* labels 0 .. n_clusters-1 in row order, or sklearn's ValueError
\* "n_samples should be >= n_clusters"
fit_predict(scaled, build, seed) ==
    IF Len(scaled.X) < n_clusters THEN [ error |-> "ValueError", labels |-> << >> ]
    ELSE With([ i \in 1..NDraws |-> uniform(build, seed, i) ], LAMBDA u :
         With(kmeans_plusplus(scaled.X, scaled.w, u), LAMBDA ids :
         With([ j \in 1..n_clusters |->
                  << scaled.X[ids[j]][1], scaled.X[ids[j]][2], 1 >> ], LAMBDA init :
         With(Lloyd(scaled.X, scaled.w, scaled.nvar, build.tie, init,
                    [ i \in DOMAIN scaled.X |-> 0 ], 1, << >>), LAMBDA labels :
            [ error |-> "", labels |-> [ i \in DOMAIN labels |-> labels[i] - 1 ] ]))))

(***************************************************************************)
(* What a run renders.  status is "ok" or "error" (an exception reached    *)
(* Streamlit, which shows it in place of the rest of the page); branches   *)
(* are the page branches the run entered, charts the EDA charts it handed  *)
(* to st.pyplot, fits the number of KMeans fits it ran, data what it       *)
(* handed to the rendering and learning calls.                             *)
(***************************************************************************)
NoData == [ none |-> TRUE ]

NotRun ==
    [ status |-> "none", exc |-> "", sidebar |-> FALSE, branches |-> << >>,
      charts |-> << >>, fits |-> 0, data |-> NoData ]

Rendered(branch, charts, fits, data) ==
    [ status |-> "ok", exc |-> "", sidebar |-> TRUE, branches |-> << branch >>,
      charts |-> charts, fits |-> fits, data |-> data ]

Raised(exc, branch, fits, data) ==
    [ status |-> "error", exc |-> exc, sidebar |-> TRUE, branches |-> << branch >>,
      charts |-> << >>, fits |-> fits, data |-> data ]

\* the exception of line 25: nothing after it runs, the sidebar included
LoadFailed ==
    [ status |-> "error", exc |-> "FileNotFoundError", sidebar |-> FALSE,
      branches |-> << >>, charts |-> << >>, fits |-> 0, data |-> NoData ]

\* an Overview that also shows the page of the run before (session state)
overview_page_session(t) ==
    [ view |-> Rendered(Pages[1], << >>, 0, [ metrics |-> shape(t), last |-> page ]),
      df |-> t ]

\* lines 47-65
overview_page(t) ==
    IF "Make" \notin t.columns
    THEN [ view |-> Raised("KeyError", Pages[1], 0, NoData), df |-> t ]
    ELSE [ view |-> Rendered(Pages[1], << >>, 0,
                       [ metrics |-> << shape(t)[1], shape(t)[2],
                                        nunique(Column(t, "Make")) >> ]),
           df |-> t ]

\* lines 70-84 (the modelled files hold no empty cells)
dataset_page(t) ==
    [ view |-> Rendered(Pages[2], << >>, 0,
                   [ preview |-> head(t.rows, HeadRows),
                     shape |-> shape(t),
                     missing |-> [ c \in t.columns |-> 0 ] ]),
      df |-> t ]

\* a chart that degrades to an empty page when the file lacks its column
ChartOverLenient(t, col, name, plotted) ==
    IF col \notin t.columns
    THEN [ view |-> Rendered(Pages[3], << >>, 0, NoData), df |-> t ]
    ELSE [ view |-> Rendered(Pages[3], << name >>, 0, plotted), df |-> t ]

\* a chart over one column: KeyError when the file lacks it
ChartOver(t, col, name, plotted) ==
    IF col \notin t.columns
    THEN [ view |-> Raised("KeyError", Pages[3], 0, NoData), df |-> t ]
    ELSE [ view |-> Rendered(Pages[3], << name >>, 0, plotted), df |-> t ]

\* lines 105-110
top_makes_chart(t, tie) ==
    ChartOver(t, "Make", Charts[1],
              [ bars |-> head(value_counts(Column(t, "Make"), tie), TopN) ])

\* lines 112-117
year_chart(t) ==
    ChartOver(t, "Model_Year", Charts[2],
              [ line |-> groupby_size(Column(t, "Model_Year")) ])

\* the histogram over the rows with a positive range only
range_chart_filtered(t) ==
    ChartOver(t, "Electric_Range", Charts[3],
              [ values |-> Pick(Column(t, "Electric_Range"),
                                { i \in DOMAIN t.rows : t.rows[i].Electric_Range > 0 }) ])

\* lines 119-123
range_chart(t) ==
    ChartOver(t, "Electric_Range", Charts[3],
              [ values |-> Column(t, "Electric_Range") ])

\* lines 125-130
top_cities_chart(t, tie) ==
    ChartOver(t, "City", Charts[4],
              [ bars |-> head(value_counts(Column(t, "City"), tie), TopN) ])

\* lines 132-137
top_states_chart(t, tie) ==
    ChartOver(t, "State", Charts[5],
              [ bars |-> head(value_counts(Column(t, "State"), tie), TopN) ])

\* lines 139-143
msrp_chart(t) ==
    ChartOver(t, "Base_MSRP", Charts[6],
              [ values |-> Column(t, "Base_MSRP") ])

\* lines 145-150
type_chart(t, tie) ==
    ChartOver(t, "Electric_Vehicle_Type", Charts[7],
              [ bars |-> value_counts(Column(t, "Electric_Vehicle_Type"), tie) ])

\* lines 89-150: the selectbox and the if/elif chain over its value
eda_page(t, c, tie) ==
    IF c = Charts[1] THEN top_makes_chart(t, tie)
    ELSE IF c = Charts[2] THEN year_chart(t)
    ELSE IF c = Charts[3] THEN range_chart(t)
    ELSE IF c = Charts[4] THEN top_cities_chart(t, tie)
    ELSE IF c = Charts[5] THEN top_states_chart(t, tie)
    ELSE IF c = Charts[6] THEN msrp_chart(t)
    ELSE IF c = Charts[7] THEN type_chart(t, tie)
    ELSE [ view |-> Rendered(Pages[3], << >>, 0, NoData), df |-> t ]

\* random_state=None: the estimator draws from NumPy's global generator
GlobalSeed == np_global

\* the seed the estimator's generator starts from at every fit (line 173)
KMeansSeed == random_state

\* clean_df["Cluster"] = labels
WithCluster(rows, labels) ==
    [ i \in DOMAIN rows |->
        [ k \in (DOMAIN rows[i]) \cup {"Cluster"} |->
            IF k = "Cluster" THEN labels[i] ELSE rows[i][k] ] ]

\* clean_df.groupby("Cluster")[["Electric_Range", "Base_MSRP"]].mean(): per
\* label in ascending order <<label, sum of ranges, sum of prices, rows>>
cluster_means(features, labels) ==
    With(groupby_size(labels), LAMBDA g :
        [ j \in DOMAIN g |->
            << g[j][1],
               Sum([ i \in DOMAIN labels |->
                       IF labels[i] = g[j][1] THEN features[i][1] ELSE 0 ]),
               Sum([ i \in DOMAIN labels |->
                       IF labels[i] = g[j][1] THEN features[i][2] ELSE 0 ]),
               g[j][2] >> ])

\* lines 170-191: scaling, clustering and rendering of the filtered rows
cluster_view(clean_df, features, build) ==
    With(fit_transform(features), LAMBDA scaled_features :
        IF scaled_features.error # ""
        THEN Raised(scaled_features.error, Pages[4], 0,
                    [ clean_df |-> clean_df, features |-> features ])
        ELSE With(fit_predict(scaled_features, build, KMeansSeed), LAMBDA kmeans :
            IF kmeans.error # ""
            THEN Raised(kmeans.error, Pages[4], 1,
                        [ clean_df |-> clean_df, features |-> features ])
            ELSE Rendered(Pages[4], << >>, 1,
                          [ clean_df |-> WithCluster(clean_df, kmeans.labels),
                            features |-> features,
                            labels |-> kmeans.labels,
                            means |-> cluster_means(features, kmeans.labels) ])))

\* the Cluster column written onto the table it was computed from
cluster_rows_in_place(t, clean_df, features, build) ==
    [ view |-> cluster_view(clean_df, features, build),
      df |-> [ columns |-> t.columns \cup { "Cluster" }, rows |-> t.rows ] ]

\* lines 167-174: clean_df is a copy (.copy()), so the Cluster column of line
\* 174 lands on the copy and df stays as loaded
cluster_rows(t, clean_df, features, build) ==
    [ view |-> cluster_view(clean_df, features, build), df |-> t ]

\* lines 155-191
clustering_page(t, build) ==
    IF "Base_MSRP" \notin t.columns
    THEN [ view |-> Raised("KeyError", Pages[4], 0, NoData), df |-> t ]
    ELSE With(PositiveMsrp(t.rows), LAMBDA clean_df :
        IF "Electric_Range" \notin t.columns
        THEN [ view |-> Raised("KeyError", Pages[4], 0, [ clean_df |-> clean_df ]),
               df |-> t ]
        ELSE With([ i \in DOMAIN clean_df |->
                      << clean_df[i].Electric_Range, clean_df[i].Base_MSRP >> ],
                  LAMBDA features : cluster_rows(t, clean_df, features, build)))

\* an Insights page that also draws the first EDA chart
insights_page_with_chart(t) ==
    [ view |-> Rendered(Pages[5], << Charts[1] >>, 0, [ text |-> "Key Findings" ]),
      df |-> t ]

\* lines 196-218
insights_page(t) ==
    [ view |-> Rendered(Pages[5], << >>, 0, [ text |-> "Key Findings" ]), df |-> t ]

\* lines 47-218: the if/elif chain over the sidebar selection
render(t, p, c, build) ==
    IF p = Pages[1] THEN overview_page(t)
    ELSE IF p = Pages[2] THEN dataset_page(t)
    ELSE IF p = Pages[3] THEN eda_page(t, c, build.tie)
    ELSE IF p = Pages[4] THEN clustering_page(t, build)
    ELSE IF p = Pages[5] THEN insights_page(t)
    ELSE [ view |-> [ Rendered("", << >>, 0, NoData) EXCEPT !.branches = << >> ],
           df |-> t ]

\* load_data() without the decorator: every run reads the file
load_data_uncached(c, d) ==
    IF d = NoFile THEN [ outcome |-> "raised", value |-> NoTable, cache |-> c ]
    ELSE [ outcome |-> "read", value |-> d, cache |-> d ]

\* lines 21-25: load_data() under st.cache_data.  A hit returns the entry; a
\* miss runs pd.read_csv and stores what it returns; an exception stores nothing
load_data(c, d) ==
    IF c # NoEntry THEN [ outcome |-> "hit", value |-> c, cache |-> c ]
    ELSE IF d = NoFile THEN [ outcome |-> "raised", value |-> NoTable, cache |-> c ]
    ELSE [ outcome |-> "read", value |-> d, cache |-> d ]

(***************************************************************************)
(* The files the model puts on disk.  Make, City and State are category    *)
(* codes; Base_MSRP is in dollars.                                         *)
(***************************************************************************)
\* the ten-row fixture with Base_MSRP [0,0,30000,45000,60000,0,80000,0,95000,0]
Fixture ==
    Table(<< Row(1, 2020, 0, 1, 1, 0, "PHEV"),
             Row(1, 2021, 2, 1, 1, 0, "BEV"),
             Row(2, 2019, 1, 2, 1, 30000, "PHEV"),
             Row(1, 2022, 2, 1, 1, 45000, "BEV"),
             Row(3, 2020, 3, 3, 2, 60000, "BEV"),
             Row(1, 2021, 0, 1, 1, 0, "BEV"),
             Row(2, 2018, 1, 2, 1, 80000, "BEV"),
             Row(1, 2022, 0, 4, 1, 0, "PHEV"),
             Row(3, 2021, 3, 3, 2, 95000, "BEV"),
             Row(2, 2022, 2, 2, 1, 0, "BEV") >>)

\* four priced rows on two distinct (range, price) points, one unpriced row
Dupes ==
    Table(<< Row(1, 2020, 1, 1, 1, 40000, "BEV"),
             Row(2, 2021, 1, 2, 1, 40000, "BEV"),
             Row(1, 2021, 0, 1, 2, -1, "PHEV"),
             Row(2, 2022, 3, 2, 1, 70000, "BEV"),
             Row(1, 2022, 3, 1, 1, 70000, "PHEV") >>)

\* the priced rows of the fixture alone
Priced == Table(PositiveMsrp(Fixture.rows))

\* two priced rows
Tiny ==
    Table(<< Row(1, 2020, 0, 1, 1, 0, "PHEV"),
             Row(2, 2021, 2, 1, 1, 35000, "BEV"),
             Row(2, 2022, 3, 2, 1, 50000, "BEV") >>)

\* no priced row
Unpriced ==
    Table(<< Row(1, 2020, 1, 1, 1, 0, "PHEV"),
             Row(2, 2021, 2, 2, 1, 0, "BEV"),
             Row(2, 2021, 0, 2, 1, -1, "BEV") >>)

Files ==
    { Fixture, Dupes, Tiny, Unpriced,
      DropColumn(Tiny, "Make"), DropColumn(Dupes, "Electric_Range") }

Builds ==
    { [ tie |-> "first", mul |-> 3, inc |-> 7 ],
      [ tie |-> "last", mul |-> 5, inc |-> 1 ] }

\* what the operating system's entropy may seed NumPy's global generator with
EntropySeeds == { 3, 5 }

(***************************************************************************)
(* Generated files.  A wide file has k categories in one of the three      *)
(* "Top 15" columns, every category on one to three rows; a point file has *)
(* up to MaxRows rows on a small grid of ranges and prices.                *)
(***************************************************************************)
\* k category codes, each once in descending order, then some of them again
WideCodes(k, m) ==
    [ i \in 1..(k + k \div 2 + m) |->
        IF i <= k THEN k + 1 - i ELSE 1 + ((i * (m + 1)) % k) ]

WideFile(k, m, wide) ==
    With(WideCodes(k, m), LAMBDA code :
        Table([ i \in DOMAIN code |->
                  Row(IF wide = "Make" THEN code[i] ELSE 1 + (code[i] % 3),
                      2020 + (i % 3),
                      i % 4,
                      IF wide = "City" THEN code[i] ELSE 1 + (code[i] \div 2),
                      IF wide = "State" THEN code[i] ELSE 1 + (code[i] % 2),
                      10000 * (i % 3),
                      IF i % 2 = 0 THEN "BEV" ELSE "PHEV") ]))

WideFiles ==
    { WideFile(k, m, wide) :
        k \in 1..MaxCats, m \in { 1, 2 }, wide \in { "Make", "City", "State" } }

GridPoints ==
    { << 0, 0 >> } \cup ({ 0, 1, 3 } \X { 30000, 70000 })

PointFile(pts) ==
    Table([ i \in DOMAIN pts |->
              Row(1 + (i % 2), 2020, pts[i][1], 1, 1, pts[i][2], "BEV") ])

PointFiles ==
    { PointFile(pts) : pts \in UNION { [ 1..n -> GridPoints ] : n \in 0..MaxRows } }

NoObs == [ df |-> NoTable, page |-> "", chart |-> "", view |-> NotRun ]

(***************************************************************************)
(* The state machine.  Every action that runs the script takes the set of  *)
(* choices the observer has of keeping what it remembered: {TRUE} leaves   *)
(* seen alone, BOOLEAN lets it remember the run that is being replaced.    *)
(***************************************************************************)
InitOn(files) ==
    /\ disk \in files \cup { NoFile }
    /\ cache = NoEntry
    /\ reads = 0
    /\ firstLoad = NoTable
    /\ df = NoTable
    /\ page = ""
    /\ chart = ""
    /\ view = NotRun
    /\ outcome = "none"
    /\ seen = NoObs
    /\ lib \in Builds
    /\ np_global \in EntropySeeds

\* the run that is being replaced, remembered or not
Remember(keep) ==
    IF keep \/ view.status = "none" THEN seen
    ELSE [ df |-> df, page |-> page, chart |-> chart, view |-> view ]

\* one run of the script, top to bottom, with the widgets at p and c
Run(p, c, keep) ==
    \E ld \in { load_data(cache, disk) } :
    \E r \in { IF ld.outcome = "raised"
                THEN [ view |-> LoadFailed, df |-> NoTable ]
                ELSE render(ld.value, p, c, lib) } :
        /\ cache' = ld.cache
        /\ reads' = IF ld.outcome = "read" THEN Min(reads + 1, MaxReads) ELSE reads
        /\ firstLoad' = IF ld.outcome = "read" /\ reads = 0 THEN ld.value ELSE firstLoad
        /\ df' = r.df
        /\ page' = IF ld.outcome = "raised" THEN "" ELSE p
        /\ chart' = IF ld.outcome = "raised" \/ p # Pages[3] THEN "" ELSE c
        /\ view' = r.view
        /\ outcome' = ld.outcome
        /\ seen' = Remember(keep)
        /\ UNCHANGED << disk, lib, np_global >>

\* the user reloads: the widgets keep their values; a radio that was never
\* drawn starts at its first option
Rerun(keeps) ==
    \E keep \in keeps :
        Run(IF page = "" THEN Pages[1] ELSE page, chart, keep)

\* the user picks another page in the sidebar; a selectbox drawn for the
\* first time starts at its first option
SelectPage(pages, keeps) ==
    \E p \in pages, keep \in keeps :
        /\ view.sidebar
        /\ p # page
        /\ Run(p, IF p = Pages[3] THEN Charts[1] ELSE "", keep)

\* the user picks another chart on the EDA page
SelectChart(keeps) ==
    \E c \in Range(Charts), keep \in keeps :
        /\ view.sidebar
        /\ page = Pages[3]
        /\ c # chart
        /\ Run(page, c, keep)

\* the environment replaces, removes or creates the CSV file
ReplaceFile(files) ==
    \E d \in files \cup { NoFile } :
        /\ d # disk
        /\ disk' = d
        /\ UNCHANGED << cache, reads, firstLoad, df, page, chart, view, outcome,
                        seen, lib, np_global >>

\* the process is restarted: its memory is gone
Restart(keeps) ==
    /\ view.status # "none"
    /\ cache' = NoEntry
    /\ reads' = 0
    /\ firstLoad' = NoTable
    /\ df' = NoTable
    /\ page' = ""
    /\ chart' = ""
    /\ view' = NotRun
    /\ outcome' = "none"
    /\ \E keep \in keeps : seen' = Remember(keep)
    /\ np_global' \in EntropySeeds
    /\ UNCHANGED << disk, lib >>

\* the dashboard in its environment
Init == InitOn(Files)

Next ==
    \/ Rerun({TRUE})
    \/ SelectPage(Range(Pages), {TRUE})
    \/ SelectChart({TRUE})
    \/ ReplaceFile(Files)
    \/ Restart({TRUE})

Spec == Init /\ [][Next]_vars

\* the same with an observer that remembers one earlier run
HistoryFiles == { Fixture, Priced, DropColumn(Tiny, "Make") }

InitHistory == InitOn(HistoryFiles)

NextHistory ==
    \/ Rerun(BOOLEAN)
    \/ SelectPage(Range(Pages), BOOLEAN)
    \/ SelectChart(BOOLEAN)
    \/ ReplaceFile(HistoryFiles)
    \/ Restart(BOOLEAN)

SpecHistory == InitHistory /\ [][NextHistory]_vars

\* the EDA page over the generated wide files
InitTop == InitOn(WideFiles) /\ \A s \in EntropySeeds : np_global <= s

NextTop ==
    \/ Rerun({TRUE})
    \/ SelectPage({ Pages[3] }, {TRUE})
    \/ SelectChart({TRUE})

SpecTop == InitTop /\ [][NextTop]_vars

\* the clustering page over the generated point files
InitKMeans == InitOn(PointFiles) /\ \A s \in EntropySeeds : np_global <= s

NextKMeans ==
    \/ Rerun({TRUE})
    \/ SelectPage({ Pages[4] }, {TRUE})

SpecKMeans == InitKMeans /\ [][NextKMeans]_vars

(***************************************************************************)
(* Properties.                                                             *)
(***************************************************************************)
\* the last run got a table from load_data()
Loaded == outcome \in { "read", "hit" }

\* the rows of column values col that hold v
RowsWith(col, v) == Cardinality({ r \in DOMAIN col : col[r] = v })

\* the indices of the rows of table t with a positive price
PricedRows(t) == { i \in DOMAIN t.rows : t.rows[i].Base_MSRP > 0 }

\* C1: within one process the CSV file is read at most once; the cache entry
\* written by that read is never dropped or replaced; every run that gets a
\* table sees the row count, the column count and the first row of the first load
C1_LoadedOnce ==
    /\ reads <= 1
    /\ reads = 0 => cache = NoEntry
    /\ reads = 1 => cache = firstLoad /\ cache # NoEntry
    /\ Loaded =>
         /\ reads = 1
         /\ shape(df) = shape(firstLoad)
         /\ SubSeq(df.rows, 1, 1) = SubSeq(firstLoad.rows, 1, 1)

C1_Witness ==
    /\ outcome = "hit"
    /\ reads = 1
    /\ disk # firstLoad
    /\ disk # NoFile
    /\ shape(df) = shape(firstLoad)
    /\ shape(disk) # shape(firstLoad)

\* C2: after every run df is the table as loaded, value for value; the Cluster
\* column is on the rows the clustering page rendered and never on df
C2_DatasetNeverMutated ==
    Loaded =>
        /\ df = firstLoad
        /\ df = cache
        /\ "Cluster" \notin df.columns
        /\ \A i \in DOMAIN df.rows : "Cluster" \notin DOMAIN df.rows[i]

C2_Witness ==
    /\ page = Pages[4]
    /\ view.status = "ok"
    /\ Len(view.data.clean_df) > 0
    /\ \A i \in DOMAIN view.data.clean_df : "Cluster" \in DOMAIN view.data.clean_df[i]
    /\ df = firstLoad
    /\ "Cluster" \notin df.columns

\* C3: two runs of one deployment that end with the same dataset, the same
\* page and the same chart render the same view, whatever came before them
C3_RenderIsPure ==
    ( /\ seen.view.status # "none"
      /\ view.status # "none"
      /\ seen.df = df
      /\ seen.page = page
      /\ seen.chart = chart )
    => seen.view = view

C3_Witness ==
    /\ seen.view.status = "ok"
    /\ seen.df = df
    /\ seen.page = Pages[3]
    /\ page = Pages[3]
    /\ seen.chart = Charts[4]
    /\ chart = Charts[4]
    /\ outcome = "hit"
    /\ disk # df
    /\ seen.view = view

\* the column a "Top 15" chart counts
TopColumn ==
    IF chart = Charts[1] THEN "Make" ELSE IF chart = Charts[4] THEN "City" ELSE "State"

\* C4: a "Top 15" chart plots min(15, distinct values) categories, each with
\* its row count, in non-increasing order of count, and no category left out
\* has more rows than a plotted one
C4_TopFifteen ==
    ( /\ page = Pages[3]
      /\ chart \in { Charts[1], Charts[4], Charts[5] }
      /\ view.status = "ok" )
    => LET col == [ i \in DOMAIN df.rows |-> df.rows[i][TopColumn] ]
           bars == view.data.bars
           plotted == { bars[i][1] : i \in DOMAIN bars }
       IN  /\ view.charts = << chart >>
           /\ Len(bars) = Min(15, Cardinality(Range(col)))
           /\ Cardinality(plotted) = Len(bars)
           /\ plotted \subseteq Range(col)
           /\ \A i \in DOMAIN bars : bars[i][2] = RowsWith(col, bars[i][1])
           /\ \A i, j \in DOMAIN bars : i < j => bars[i][2] >= bars[j][2]
           /\ \A v \in Range(col) \ plotted : \A i \in DOMAIN bars :
                  RowsWith(col, v) <= bars[i][2]

C4_Witness ==
    /\ page = Pages[3]
    /\ chart = Charts[4]
    /\ view.status = "ok"
    /\ Cardinality({ df.rows[i].City : i \in DOMAIN df.rows }) > 15
    /\ Len(view.data.bars) = 15
    /\ view.data.bars[1][2] > view.data.bars[15][2]
    /\ \E i \in DOMAIN df.rows :
          /\ \A k \in 1..15 : view.data.bars[k][1] # df.rows[i].City
          /\ RowsWith([ r \in DOMAIN df.rows |-> df.rows[r].City ], df.rows[i].City)
               = view.data.bars[15][2]

\* C5: the rows standardized and clustered are the rows of df with
\* Base_MSRP > 0, all of them, in order, and no other; five for the fixture
C5_ClusteredRowsArePositive ==
    ( page = Pages[4] /\ "features" \in DOMAIN view.data )
    => LET pos == PricedRows(df)
           at(i) == Cardinality({ j \in pos : j <= i })
       IN  /\ Len(view.data.features) = Cardinality(pos)
           /\ Len(view.data.clean_df) = Cardinality(pos)
           /\ \A i \in pos :
                 /\ view.data.features[at(i)]
                      = << df.rows[i].Electric_Range, df.rows[i].Base_MSRP >>
                 /\ \A c \in df.columns : view.data.clean_df[at(i)][c] = df.rows[i][c]
           /\ df = Fixture => Len(view.data.features) = 5

C5_Witness ==
    /\ df = Fixture
    /\ page = Pages[4]
    /\ view.status = "ok"
    /\ Len(view.data.features) = 5
    /\ \E i \in DOMAIN df.rows : df.rows[i].Base_MSRP = 0

\* the column a distribution chart plots
DistColumn == IF chart = Charts[3] THEN "Electric_Range" ELSE "Base_MSRP"

DistChartDrawn ==
    /\ page = Pages[3]
    /\ chart \in { Charts[3], Charts[6] }
    /\ view.status = "ok"

\* C6 as claimed: every value the two distribution charts plot is > 0
C6_PlottedValuesPositive ==
    DistChartDrawn => \A i \in DOMAIN view.data.values : view.data.values[i] > 0

\* C6: the Electric Range and Base MSRP distribution charts plot the whole
\* column, every row of df, zero and negative values included
C6_PlottedValuesUnfiltered ==
    DistChartDrawn =>
        view.data.values = [ i \in DOMAIN df.rows |-> df.rows[i][DistColumn] ]

C6_Witness ==
    /\ DistChartDrawn
    /\ chart = Charts[3]
    /\ Len(view.data.values) = Len(df.rows)
    /\ \E i \in DOMAIN view.data.values : view.data.values[i] = 0

\* both the remembered run and the last run clustered, on the same input
SameClusteringInput ==
    /\ seen.page = Pages[4]
    /\ page = Pages[4]
    /\ seen.view.status = "ok"
    /\ view.status = "ok"
    /\ seen.view.data.features = view.data.features

\* C7: two renders of the clustering page on the same filtered rows give every
\* row the same label, in one process or across restarts, whatever ran between
C7_ClusteringDeterministic ==
    SameClusteringInput =>
        /\ seen.view.data.labels = view.data.labels
        /\ seen.view.fits = 1
        /\ view.fits = 1

C7_Witness ==
    /\ SameClusteringInput
    /\ seen.df # df
    /\ seen.view.data.labels = view.data.labels
    /\ Cardinality(Range(view.data.labels)) = n_clusters

\* the columns the selected page or chart reads
UsedColumns ==
    IF page = Pages[1] THEN { "Make" }
    ELSE IF page = Pages[4] THEN { "Electric_Range", "Base_MSRP" }
    ELSE IF page # Pages[3] THEN { }
    ELSE IF chart = Charts[1] THEN { "Make" }
    ELSE IF chart = Charts[2] THEN { "Model_Year" }
    ELSE IF chart = Charts[3] THEN { "Electric_Range" }
    ELSE IF chart = Charts[4] THEN { "City" }
    ELSE IF chart = Charts[5] THEN { "State" }
    ELSE IF chart = Charts[6] THEN { "Base_MSRP" }
    ELSE IF chart = Charts[7] THEN { "Electric_Vehicle_Type" }
    ELSE { }

FileMissing == outcome = "raised"

ColumnMissing == Loaded /\ ~(UsedColumns \subseteq df.columns)

ClusteringOn == Loaded /\ page = Pages[4] /\ UsedColumns \subseteq df.columns

EmptyFilter == ClusteringOn /\ PricedRows(df) = { }

\* fewer than three distinct (range, price) points among the priced rows
DegenerateData ==
    /\ ClusteringOn
    /\ Cardinality({ << df.rows[i].Electric_Range, df.rows[i].Base_MSRP >> :
                       i \in PricedRows(df) }) < 3

\* fewer than three priced rows
TooFewRows == ClusteringOn /\ Cardinality(PricedRows(df)) < 3

\* the run ended in an exception shown to the user, with nothing drawn
UnhandledFailure ==
    /\ view.status = "error"
    /\ view.exc # ""
    /\ view.charts = << >>
    /\ "labels" \notin DOMAIN view.data
    /\ view.fits <= 1

C9_ClusterCount ==
    ( page = Pages[4] /\ view.status = "ok" )
    => LET labels == view.data.labels
           points == Range(view.data.features)
       IN  /\ DOMAIN labels = DOMAIN view.data.features
           /\ \A i \in DOMAIN labels :
                 /\ labels[i] \in 0..2
                 /\ view.data.clean_df[i].Cluster = labels[i]
           /\ Cardinality(Range(labels)) <= 3
           /\ { view.data.means[j][1] : j \in DOMAIN view.data.means } = Range(labels)
           /\ Len(view.data.means) = Cardinality(Range(labels))
           /\ Cardinality(points) >= 3 => Cardinality(Range(labels)) = 3
           /\ Cardinality(Range(labels)) < 3 => Cardinality(points) < 3

C9_Witness ==
    /\ page = Pages[4]
    /\ view.status = "ok"
    /\ Len(view.data.features) = 4
    /\ Cardinality(Range(view.data.features)) = 3
    /\ Cardinality(Range(view.data.labels)) = 3

\* the dispatch of a run: the selected page's branch and no other, one chart
\* on the EDA page and none elsewhere, clustering on the clustering page only
OneBranch ==
    /\ page \in Range(Pages)
    /\ view.branches = << page >>
    /\ page = Pages[3] => chart \in Range(Charts) /\ view.charts = << chart >>
    /\ page # Pages[3] => chart = "" /\ view.charts = << >>
    /\ page = Pages[4] => view.fits <= 1
    /\ page # Pages[4] => view.fits = 0 /\ "clean_df" \notin DOMAIN view.data

\* C10 as claimed: every run renders exactly one page branch, and on the EDA
\* page exactly one chart
C10_EveryRunOneBranch == view.status # "none" => OneBranch

\* C10: every run that raises no exception renders exactly the selected page
\* branch, with exactly the selected chart on the EDA page, no chart elsewhere
\* and no clustering off the clustering page; a run that raises renders no
\* chart, and no branch at all when it is load_data() that raised
C10_OneBranchPerRun ==
    /\ view.status = "ok" => OneBranch
    /\ view.status = "error" =>
         /\ view.charts = << >>
         /\ IF outcome = "raised"
            THEN view.branches = << >> /\ ~view.sidebar
            ELSE view.branches = << page >> /\ page \in Range(Pages)
         /\ page # Pages[4] => view.fits = 0 /\ "clean_df" \notin DOMAIN view.data

C10_Witness ==
    /\ page = Pages[3]
    /\ view.status = "ok"
    /\ chart = Charts[7]
    /\ view.charts = << Charts[7] >>
    /\ view.branches = << Pages[3] >>
    /\ view.fits = 0

====
